---- MODULE Spec2Model ----
(***************************************************************************)
(* Model of the TFTP server of tftp/server.py and tftp/__main__.py.        *)
(*                                                                         *)
(* A datagram is a sequence of bytes (0..255).  Python calls are modelled  *)
(* as operators that return a record [exc, val]: exc is "None" when the    *)
(* call returns val, and the name of the exception class when it raises.   *)
(* The program is the loop of __main__.py: socketserver.UDPServer takes    *)
(* one datagram at a time from its socket and runs Handler.handle on it in *)
(* the same thread, handing the handler that same socket.                  *)
(***************************************************************************)
EXTENDS Integers, Sequences, FiniteSets, TLC

VARIABLES
    inbox,      \* datagrams queued in the server socket: <<[from, data]>>
    outbox,     \* every datagram passed to socket.sendto: <<[to, data]>>
    pc,         \* where the serving thread is
    request,    \* self.request[0] and self.client_address of the handler
    args,       \* (opcode, filename, mode) returned by unpackRWRQ
    rrq,        \* the local variables of handleRRQ
    uncaught,   \* exception that left the last handler, "None" if it returned
    sess,       \* history of the last call of handleRRQ: its address, the
                \* datagrams it sent, what socket.recv gave it, the senders
                \* other than its address that reached the socket while it
                \* ran, how it ended, the exception that left it, and the
                \* datagrams of its own peer that reached the socket while
                \* it ran
    arrived,    \* number of datagrams that have reached the socket
    py311,      \* the interpreter is Python 3.11 or later
    hist,       \* history of the handlers: Len(outbox) when the last Handler
                \* was constructed, whether an earlier handler ended in an
                \* error, and the addresses whose WRQ reached handleWRQ
    codec       \* a codec function applied on its own: input and results

vars == <<inbox, outbox, pc, request, args, rrq, uncaught,
          sess, arrived, py311, hist, codec>>

---------------------------------------------------------------------------
(* Bounds of the model *)

MaxArrivals == 2

\* Largest byte of the one-byte inputs given to the decoders on their own
MaxShortByte == 7

---------------------------------------------------------------------------
(* Constants of the program *)

RRQ == 1
WRQ == 2
DATA == 3
ACK == 4
ERROR == 5

NOT_DEFINED == 0
FILE_NOT_FOUND == 1
ACCESS_VIOLATION == 2
ILLEGAL_OPERATION == 4
UNKNOWN_TRANSFER_ID == 5

BlockStep == 512
RecvBufSize == 1024

OpcodeKeys == 1..5
ErrorKeys == 0..7

\* The keys of Modes, as ASCII bytes: 'OCTET', 'NETASCII', 'MAIL'
ModeKeys ==
    { <<79, 67, 84, 69, 84>>,
      <<78, 69, 84, 65, 83, 67, 73, 73>>,
      <<77, 65, 73, 76>> }

---------------------------------------------------------------------------
(* Python values *)

None == "None"
Ok(v) == [exc |-> None, val |-> v]
Raise(name) == [exc |-> name, val |-> <<>>]

Min(S) == CHOOSE x \in S : \A y \in S : x <= y

\* int.from_bytes(bs, 'big')
RECURSIVE FromBytesBig(_)
FromBytesBig(bs) ==
    IF bs = <<>> THEN 0
    ELSE FromBytesBig(SubSeq(bs, 1, Len(bs) - 1)) * 256 + bs[Len(bs)]

\* n.to_bytes(2, 'big'): OverflowError outside 0..65535
ToBytes2(n) ==
    IF n < 0 \/ n > 65535 THEN Raise("OverflowError")
    ELSE Ok(<<n \div 256, n % 256>>)

\* seq[s:e] with Python's treatment of negative and out-of-range indices
PyIndex(n, len) ==
    IF n < 0 THEN (IF len + n < 0 THEN 0 ELSE len + n)
    ELSE (IF n > len THEN len ELSE n)

PySlice(seq, s, e) ==
    LET lo == PyIndex(s, Len(seq))
        hi == PyIndex(e, Len(seq))
    IN  IF lo < hi THEN SubSeq(seq, lo + 1, hi) ELSE <<>>

\* bytes.find(byte, start): 0-based index of the first occurrence, else -1
PyFind(seq, byte, start) ==
    LET hits == {i \in start..(Len(seq) - 1) : seq[i + 1] = byte}
    IN  IF hits = {} THEN -1 ELSE Min(hits)

\* bytes.decode('utf-8') on the bytes the model feeds it: ASCII decodes to
\* itself, and 0xF8..0xFF never occur in UTF-8.
Utf8Decode(bs) ==
    IF \E i \in 1..Len(bs) : bs[i] >= 248 THEN Raise("UnicodeDecodeError")
    ELSE Ok(bs)

\* str.upper() on ASCII text
Upper(bs) ==
    [i \in 1..Len(bs) |-> IF bs[i] >= 97 /\ bs[i] <= 122 THEN bs[i] - 32 ELSE bs[i]]

---------------------------------------------------------------------------
(* Packet codec: server.py lines 59-148 *)

\* unpackOpcode: the slice packet[:2] of a 0- or 1-byte packet is shorter
\* than 2 bytes and int.from_bytes reads it as it is.
UnpackOpcode(packet) ==
    LET c == FromBytesBig(PySlice(packet, 0, 2))
    IN  IF c \notin OpcodeKeys THEN Raise("UnknownOpcodeException") ELSE Ok(c)

\* str(ex): the text of the message is abstracted to one ASCII byte; nothing
\* in the program reads it back.
ExMsg(ex) == <<63>>

\* packERROR
PackERROR(code, msg) ==
    IF code \notin ErrorKeys THEN Raise("UnknownErrorCodeException")
    ELSE Ok(ToBytes2(ERROR).val \o ToBytes2(code).val \o msg \o <<0>>)

\* packDATA: the first statement after b = bytearray() is b.extebd(...), and a
\* bytearray has no attribute extebd: the call raises before a byte is built.
PackDATA(data, blockNum) ==
    Raise("AttributeError")

\* unpackDATA
UnpackDATA(packet) ==
    LET o == UnpackOpcode(packet)
    IN  IF o.exc # None THEN Raise(o.exc)
        ELSE IF o.val # DATA THEN Raise("IllegalOperationException")
        ELSE Ok(<<o.val, FromBytesBig(PySlice(packet, 2, 4)),
                  PySlice(packet, 4, Len(packet))>>)

\* unpackRWRQ.  The message of the IllegalOperationException of line 108 is
\* built from Opcodes[c], and unpackRWRQ has no variable c: NameError.
UnpackRWRQ(packet) ==
    LET o == UnpackOpcode(packet)
    IN  IF o.exc # None THEN Raise(o.exc)
        ELSE IF o.val \notin {RRQ, WRQ} THEN Raise("NameError")
        ELSE
          LET e1 == PyFind(packet, 0, 2)
          IN  IF e1 < 2 THEN Raise("MalformedPacketException")
              ELSE
                LET filename == Utf8Decode(PySlice(packet, 2, e1))
                    s2 == e1 + 1
                    e2 == PyFind(packet, 0, s2)
                IN  IF filename.exc # None THEN Raise(filename.exc)
                    ELSE IF e2 < s2 THEN Raise("MalformedPacketException")
                    ELSE
                      LET mode == Utf8Decode(PySlice(packet, s2, e2))
                      IN  IF mode.exc # None THEN Raise(mode.exc)
                          ELSE IF filename.val = <<>>
                               THEN Raise("EmptyPathException")
                          ELSE IF Upper(mode.val) \notin ModeKeys
                               THEN Raise("UnknownModeException")
                          ELSE Ok(<<o.val, filename.val, Upper(mode.val)>>)

\* int.from_bytes(bs) without a byteorder: big-endian from Python 3.11 on,
\* TypeError (missing argument) before.
FromBytesDefault(bs, newPython) ==
    IF newPython THEN Ok(FromBytesBig(bs)) ELSE Raise("TypeError")

\* unpackACK
UnpackACK(packet, newPython) ==
    LET o == UnpackOpcode(packet)
    IN  IF o.exc # None THEN Raise(o.exc)
        ELSE IF o.val # ACK THEN Raise("IllegalOperationException")
        ELSE
          LET blockNum == FromBytesDefault(PySlice(packet, 2, 4), newPython)
          IN  IF blockNum.exc # None THEN Raise(blockNum.exc)
              ELSE Ok(<<o.val, blockNum.val>>)

\* packACK: Opcode (not Opcodes) is no name of the module: NameError.
PackACK(blockNum) ==
    Raise("NameError")

---------------------------------------------------------------------------
(* Storage: tftp/storage.py is not among the source files; get() is        *)
(* modelled from the collaborator interface of the specification.          *)

\* The bytes of a stored file of n bytes: neighbouring bytes differ.
FileBytes(n) == [i \in 1..n |-> (i * 7) % 251]

\* File names, as ASCII bytes: "a", "b", "z"; "m" is not stored.
NameA == <<97>>
NameB == <<98>>
NameZ == <<122>>
NameM == <<109>>

Store ==
    (NameA :> FileBytes(100)) @@ (NameB :> FileBytes(1024)) @@ (NameZ :> FileBytes(0))

\* Storage().get(filename)
StorageGet(filename) ==
    IF filename = <<>> THEN Raise("EmptyPathException")
    ELSE IF filename \in DOMAIN Store THEN Ok(Store[filename])
    ELSE Raise("FileNotFoundException")

---------------------------------------------------------------------------
(* handleRRQ: server.py lines 150-263 *)

\* sendError without its sendto: the Error is built and never sent
SendErrorLost(address, err) == <<>>

\* sendError: socket.sendto(err, address)
SendError(address, err) == <<[to |-> address, data |-> err]>>

\* sendData(address, socket, data, blockNum)
SendData(address, data, blockNum) ==
    LET p == PackDATA(data, blockNum)
    IN  IF p.exc # None THEN Raise(p.exc)
        ELSE Ok(<<[to |-> address, data |-> p.val]>>)

\* The expression socket.Timeout of the except clauses of lines 213 and 251.
\* Inside handleRRQ socket is the parameter, a socket object, which has no
\* attribute Timeout: evaluating the clause raises AttributeError.
SocketDotTimeout == Raise("AttributeError")

\* The local variables of handleRRQ before the loop (lines 178-186)
InitLocals(filename, file) ==
    [filename |-> filename, data |-> <<>>, sendDATA |-> FALSE, readACK |-> FALSE,
     dataBlock |-> 0, ackBlock |-> 0, fileSize |-> Len(file), s |-> 0 - BlockStep,
     e |-> 0]

NoLocals == InitLocals(<<>>, <<>>)

\* What a stretch of handleRRQ leaves: the locals, the datagrams sent, the
\* exception that leaves the handler ("None" if none) and whether and how the
\* function returned ("no", "completed", "error").
Step(l, out, exc, ret) == [l |-> l, out |-> out, exc |-> exc, ret |-> ret]

\* Lines 191-201: ready for a new DATA packet
NewBlock(l) ==
    IF l.ackBlock = l.dataBlock
    THEN LET s1 == l.s + BlockStep
             e1 == l.e + BlockStep
             e2 == IF e1 > l.fileSize THEN -1 ELSE e1
         IN  [l EXCEPT !.dataBlock = @ + 1, !.s = s1, !.e = e2,
                       !.data = PySlice(Store[l.filename], s1, e2),
                       !.sendDATA = TRUE]
    ELSE l

\* Lines 204-220: sending a DATA packet.  The call of line 209 passes
\* dataBlock as data and data as blockNum.
SendPhase(l, address) ==
    IF ~l.sendDATA THEN Step(l, <<>>, None, "no")
    ELSE
      LET sent == SendData(address, l.dataBlock, l.data)
      IN  IF sent.exc = None
          THEN Step([l EXCEPT !.sendDATA = FALSE, !.readACK = TRUE],
                    sent.val, None, "no")
          ELSE IF SocketDotTimeout.exc # None
          THEN Step(l, <<>>, SocketDotTimeout.exc, "no")
          ELSE IF sent.exc = SocketDotTimeout.val
          THEN Step(l, SendError(address, PackERROR(NOT_DEFINED, ExMsg(sent.exc)).val),
                    None, "error")
          ELSE Step(l, <<>>, sent.exc, "no")

\* socket.recv(1024) on a queued datagram
Recv(datagram) == PySlice(datagram.data, 0, RecvBufSize)

\* What socket.recv gives when nothing arrives within SOCKET_TIMEOUT
TimedOut == [from |-> "timeout", data |-> <<>>]

\* The except clause of line 251, reached by exception x
ExceptTimeout(l, x) ==
    IF SocketDotTimeout.exc # None THEN Step(l, <<>>, SocketDotTimeout.exc, "no")
    ELSE IF x = SocketDotTimeout.val
    THEN Step([l EXCEPT !.readACK = FALSE, !.sendDATA = TRUE], <<>>, None, "no")
    ELSE Step(l, <<>>, x, "no")

\* Lines 223-256: waiting for an ACK packet; ev is what socket.recv gives
RecvPhase(l, address, ev, newPython) ==
    IF ~l.readACK THEN Step(l, <<>>, None, "no")
    ELSE IF ev = TimedOut THEN ExceptTimeout(l, "timeout")
    ELSE
      LET u == UnpackACK(Recv(ev), newPython)
      IN  IF u.exc = None
          THEN IF u.val[2] = l.dataBlock
               THEN Step([l EXCEPT !.ackBlock = u.val[2], !.readACK = FALSE],
                         <<>>, None, "no")
               ELSE Step(l, <<>>, None, "no")
          ELSE IF u.exc = "IllegalOperationException"
          THEN Step(l, SendError(address,
                                 PackERROR(ILLEGAL_OPERATION, ExMsg(u.exc)).val),
                    None, "error")
          ELSE ExceptTimeout(l, u.exc)

\* Lines 259-263: the last block is acknowledged and no data is left
Finished(l) == l.ackBlock = l.dataBlock /\ l.e = -1

---------------------------------------------------------------------------
(* The datagrams and senders the network may deliver *)

Octet == <<111, 99, 116, 101, 116>>
MixedOctet == <<79, 99, 84, 101, 116>>
Foo == <<102, 111, 111>>

Request(op, filename, mode) == <<0, op>> \o filename \o <<0>> \o mode \o <<0>>

Datagrams ==
    { Request(RRQ, NameA, Octet), Request(RRQ, NameB, MixedOctet),
      Request(RRQ, NameZ, Octet), Request(RRQ, NameM, Octet),
      Request(RRQ, NameA, Foo), Request(RRQ, <<>>, Octet),
      Request(RRQ, <<255>>, Octet), Request(WRQ, NameA, Octet),
      <<0, RRQ, 97>>, <<0, RRQ, 97, 0, 111>>,
      <<0, ACK, 0, 1>>, <<0, ACK, 0, 2>>, <<0, ACK>>,
      <<0, DATA, 0, 1, 9>>, <<0, ERROR, 0, 0, 0>>,
      <<0, 9>>, <<RRQ>>, <<>> }

Addresses == {"c1", "c2"}

---------------------------------------------------------------------------
(* State *)

NoRequest == [packet |-> <<>>, client_address |-> "none"]
NoArgs == <<0, <<>>, <<>>>>
NoSession ==
    [address |-> "none", sent |-> <<>>, recv |-> <<>>, foreign |-> {},
     end |-> "none", exc |-> None, fromPeer |-> {}]

NoHistory == [mark |-> 0, failed |-> FALSE, writers |-> {}]
NoCodec == [kind |-> "none", block |-> 0, payload |-> <<>>, done |-> FALSE,
            results |-> <<>>]

Init ==
    /\ inbox = <<>>
    /\ outbox = <<>>
    /\ pc = "serve"
    /\ request = NoRequest
    /\ args = NoArgs
    /\ rrq = NoLocals
    /\ uncaught = None
    /\ sess = NoSession
    /\ arrived = 0
    /\ py311 \in BOOLEAN
    /\ hist = NoHistory
    /\ codec = NoCodec

\* A datagram from some sender reaches the server's socket
Arrive(d, a) ==
    /\ arrived < MaxArrivals
    /\ arrived' = arrived + 1
    /\ inbox' = Append(inbox, [from |-> a, data |-> d])
    /\ sess' = IF sess.end = "active" /\ a # sess.address
               THEN [sess EXCEPT !.foreign = @ \cup {a}]
               ELSE IF sess.end = "active"
               THEN [sess EXCEPT !.fromPeer = @ \cup {d}]
               ELSE sess
    /\ UNCHANGED <<outbox, pc, request, args, rrq, uncaught, py311, hist, codec>>

\* srv.serve_forever(): UDPServer takes the next datagram and constructs the
\* Handler with request = (data, socket) and client_address
ServeForever ==
    /\ pc = "serve"
    /\ inbox # <<>>
    /\ request' = [packet |-> Head(inbox).data, client_address |-> Head(inbox).from]
    /\ inbox' = Tail(inbox)
    /\ pc' = "handle"
    /\ hist' = [hist EXCEPT
                   !.mark = Len(outbox),
                   !.failed = @ \/ uncaught # None
                                \/ \E i \in (hist.mark + 1)..Len(outbox) :
                                      PySlice(outbox[i].data, 0, 2) = <<0, ERROR>>]
    /\ UNCHANGED <<outbox, args, rrq, uncaught, sess, arrived, py311, codec>>

\* The error code Handler.handle answers an exception of unpackRWRQ with;
\* -1 when no except clause catches it
HandleErrorCode(exc) ==
    CASE exc = "UnknownModeException" -> ACCESS_VIOLATION
      [] exc = "EmptyPathException" -> FILE_NOT_FOUND
      [] exc \in {"IllegalOperationException", "UnknownOpcodeException"}
            -> ILLEGAL_OPERATION
      [] OTHER -> -1

\* Handler.handle up to the call of handleRRQ or handleWRQ
Handle ==
    /\ pc = "handle"
    /\ LET r == UnpackRWRQ(request.packet)
       IN  IF r.exc = None
           THEN /\ args' = r.val
                /\ pc' = IF r.val[1] = RRQ THEN "rrq" ELSE "wrq"
                /\ UNCHANGED <<outbox, uncaught>>
           ELSE IF HandleErrorCode(r.exc) >= 0
           THEN /\ outbox' = outbox \o
                       SendError(request.client_address,
                                 PackERROR(HandleErrorCode(r.exc), ExMsg(r.exc)).val)
                /\ uncaught' = None
                /\ pc' = "serve"
                /\ UNCHANGED args
           ELSE /\ uncaught' = r.exc
                /\ pc' = "serve"
                /\ UNCHANGED <<outbox, args>>
    /\ UNCHANGED <<inbox, request, rrq, sess, arrived, py311, hist, codec>>

\* handleWRQ whose TypeError is not held by the server loop and ends it
HandleWRQFatal ==
    /\ pc = "wrq"
    /\ uncaught' = "TypeError"
    /\ pc' = "down"
    /\ hist' = [hist EXCEPT !.writers = @ \cup {request.client_address}]
    /\ UNCHANGED <<inbox, outbox, request, args, rrq, sess, arrived, py311, codec>>

\* handleWRQ: socket.sendto(filename, address) with filename a str, which is
\* no bytes-like object: TypeError, nothing is sent
HandleWRQ ==
    /\ pc = "wrq"
    /\ uncaught' = "TypeError"
    /\ pc' = "serve"
    /\ hist' = [hist EXCEPT !.writers = @ \cup {request.client_address}]
    /\ UNCHANGED <<inbox, outbox, request, args, rrq, sess, arrived, py311, codec>>

\* handleRRQ, lines 162-186: open the file, set the locals
HandleRRQ ==
    /\ pc = "rrq"
    /\ LET file == StorageGet(args[2])
           err == SendError(request.client_address,
                            PackERROR(FILE_NOT_FOUND, ExMsg(file.exc)).val)
           new == [NoSession EXCEPT !.address = request.client_address]
       IN  IF file.exc \in {"FileNotFoundException", "EmptyPathException"}
           THEN /\ outbox' = outbox \o err
                /\ rrq' = NoLocals
                /\ sess' = [new EXCEPT !.sent = err, !.end = "error"]
                /\ uncaught' = None
                /\ pc' = "serve"
           ELSE /\ rrq' = InitLocals(args[2], file.val)
                /\ sess' = [new EXCEPT !.end = "active"]
                /\ pc' = "loop"
                /\ UNCHANGED <<outbox, uncaught>>
    /\ UNCHANGED <<inbox, request, args, arrived, py311, hist, codec>>

\* How a stretch of the loop of handleRRQ leaves the handler, or goes on
Continue(st, next, got) ==
    LET h == [sess EXCEPT !.sent = @ \o st.out, !.recv = @ \o got]
    IN  /\ outbox' = outbox \o st.out
        /\ rrq' = st.l
        /\ IF st.exc # None
           THEN /\ uncaught' = st.exc
                /\ sess' = [h EXCEPT !.end = "raised", !.exc = st.exc]
                /\ pc' = "serve"
           ELSE IF st.ret = "error"
           THEN /\ uncaught' = None
                /\ sess' = [h EXCEPT !.end = "error"]
                /\ pc' = "serve"
           ELSE IF next = "check" /\ Finished(st.l)
           THEN /\ uncaught' = None
                /\ sess' = [h EXCEPT !.end = "completed"]
                /\ pc' = "serve"
           ELSE /\ pc' = IF next = "check" THEN "loop" ELSE next
                /\ sess' = h
                /\ UNCHANGED uncaught

\* One stretch of the loop of handleRRQ (lines 189-263): from the top of
\* the loop to the call of socket.recv, or from the return of socket.recv to
\* the top of the loop
HandleRRQLoop ==
    /\ pc \in {"loop", "recv"}
    /\ IF pc = "loop"
       THEN LET st == SendPhase(NewBlock(rrq), request.client_address)
            IN  /\ Continue(st, IF st.l.readACK THEN "recv" ELSE "check", <<>>)
                /\ UNCHANGED inbox
       ELSE LET ev == IF inbox = <<>> THEN TimedOut ELSE Head(inbox)
                st == RecvPhase(rrq, request.client_address, ev, py311)
            IN  /\ inbox' = IF inbox = <<>> THEN inbox ELSE Tail(inbox)
                /\ Continue(st, "check", <<ev>>)
    /\ UNCHANGED <<request, args, arrived, py311, hist, codec>>

Next ==
    \/ \E d \in Datagrams, a \in Addresses : Arrive(d, a)
    \/ ServeForever
    \/ Handle
    \/ HandleWRQ
    \/ HandleRRQ
    \/ HandleRRQLoop

Spec == Init /\ [][Next]_vars

---------------------------------------------------------------------------
(* What the last read session did, read off its history *)

\* The retry bound of the specification's retry-exhaustion example; the
\* program has no such counter
RetryBound == 3

\* The session opened a stored file (it did not end at line 176)
Opened == sess.end # "none" /\ rrq.filename \in DOMAIN Store

\* handleRRQ is over: it returned or an exception left it
Ended == sess.end \in {"completed", "error", "raised"}

IsData(d) == UnpackDATA(d.data).exc = None
IsError(d, code) == Len(d.data) >= 4 /\ SubSeq(d.data, 1, 4) = <<0, ERROR, 0, code>>

\* The Data datagrams of the session, in the order sent
SentData == SelectSeq(sess.sent, IsData)

\* (block number, payload) of every Data datagram sent
BlocksSent == {<<UnpackDATA(SentData[i].data).val[2], UnpackDATA(SentData[i].data).val[3]>> :
                  i \in 1..Len(SentData)}

\* The payloads of a set of blocks, concatenated in block-number order
RECURSIVE ConcatBlocks(_)
ConcatBlocks(S) ==
    IF S = {} THEN <<>>
    ELSE LET b == CHOOSE x \in S : \A y \in S : x[1] <= y[1]
         IN  b[2] \o ConcatBlocks(S \ {b})

\* Every datagram the session received is, in turn, the peer's Ack of
\* block 1, 2, ...
AckedInTurn ==
    \A i \in 1..Len(sess.recv) :
        sess.recv[i] = [from |-> sess.address, data |-> <<0, ACK>> \o ToBytes2(i).val]

\* Every wait of the session for an Ack timed out
PeerSilent == \A i \in 1..Len(sess.recv) : sess.recv[i] = TimedOut

---------------------------------------------------------------------------
(* Facts about every run of the program *)

\* No read session ever calls socket.recv: the loop of handleRRQ is left by
\* the AttributeError of packDATA in its first pass.
SessionNeverReceives == pc # "recv" /\ sess.recv = <<>>

\* No Data datagram is ever sent.
NoDataEverSent == \A i \in 1..Len(outbox) : ~IsData(outbox[i])

\* Every read session over a stored file ends with an exception leaving
\* handleRRQ.
OpenedSessionRaises ==
    (Opened /\ Ended) => sess.end = "raised" /\ sess.exc = "AttributeError"

\* The payload built for the only block of the 100-byte file (lines 195-197)
\* has 99 bytes: file[0:-1] leaves out the last byte.
LastByteCut ==
    (rrq.filename = NameA /\ rrq.dataBlock = 1) =>
        rrq.data = SubSeq(Store[NameA], 1, 99)

---------------------------------------------------------------------------
(* Claims *)

\* C1: in a read session over a file of N bytes in which every Data block is
\* acknowledged in turn, the payloads of the distinct Data blocks sent,
\* concatenated in block-number order, are exactly the N bytes of the file.
C1_PayloadsAreTheFile ==
    (Opened /\ Ended /\ AckedInTurn) =>
        ConcatBlocks(BlocksSent) = Store[rrq.filename]

\* C2: in a read session over a file whose size is a multiple of 512 (0
\* included), with every block acknowledged in turn, the Data blocks sent are
\* the full blocks 1..n followed by block n+1 with an empty payload.
C2_ZeroLengthFinalBlock ==
    (Opened /\ Ended /\ AckedInTurn /\ rrq.fileSize % BlockStep = 0) =>
        LET n == rrq.fileSize \div BlockStep
        IN  [i \in 1..Len(SentData) |->
                <<UnpackDATA(SentData[i].data).val[2],
                  Len(UnpackDATA(SentData[i].data).val[3])>>]
            = [i \in 1..(n + 1) |-> <<i, IF i <= n THEN BlockStep ELSE 0>>]

\* C6: a read session that never receives an Ack sends its Data block once,
\* retransmits it as many times as the retry bound, and is then over.
C6_BoundedRetransmissions ==
    (Opened /\ Ended /\ PeerSilent) =>
        /\ Len(SentData) = 1 + RetryBound
        /\ \A i \in 1..Len(SentData) : SentData[i] = SentData[1]

\* C8: a datagram that reached a read session from an address other than the
\* session's peer is answered with an Error of code UnknownTransferId sent to
\* that address: once the session is over and the server has nothing left to
\* read, such an Error has been sent to every foreign sender.
C8_ForeignSenderAnswered ==
    (Ended /\ pc = "serve" /\ inbox = <<>>) =>
        \A a \in sess.foreign :
            \E i \in 1..Len(outbox) :
                outbox[i].to = a /\ IsError(outbox[i], UNKNOWN_TRANSFER_ID)

---------------------------------------------------------------------------
(* What the last handler did, read off the history *)

\* The handler of the last request is over
HandlerDone == pc = "serve" /\ request # NoRequest

\* The datagrams sent since the last Handler was constructed
Replies == SubSeq(outbox, hist.mark + 1, Len(outbox))

\* An Error datagram of any code
IsAnyError(d) == Len(d.data) >= 5 /\ SubSeq(d.data, 1, 2) = <<0, ERROR>>

\* The ways the decoding of a request fails that the dispatcher's contract
\* names: a length below 2 or an unknown opcode (UnknownOpcodeException), an
\* opcode other than RRQ and WRQ (the raise of line 108, which ends as a
\* NameError), a missing terminator, an unknown mode, an empty filename
DecodeFailures ==
    {"UnknownOpcodeException", "NameError", "MalformedPacketException",
     "UnknownModeException", "EmptyPathException"}

\* C12: every initial datagram that fails request decoding is answered with
\* exactly one Error datagram to its sender, and nothing else is sent for it.
C12_OneErrorPerBadRequest ==
    (HandlerDone /\ UnpackRWRQ(request.packet).exc \in DecodeFailures) =>
        /\ Len(Replies) = 1
        /\ Replies[1].to = request.client_address
        /\ IsAnyError(Replies[1])

\* The last request is a well-formed read request for a file that storage
\* cannot open
ReadOfMissingFile ==
    LET r == UnpackRWRQ(request.packet)
    IN  /\ r.exc = None
        /\ r.val[1] = RRQ
        /\ StorageGet(r.val[2]).exc \in {"FileNotFoundException", "EmptyPathException"}

\* C13: a valid read request for a file that storage cannot open is answered
\* with exactly one Error of code FileNotFound (1) to the requester, and
\* nothing else is sent for it.
C13_MissingFileAnswered ==
    (HandlerDone /\ ReadOfMissingFile) =>
        /\ Len(Replies) = 1
        /\ Replies[1].to = request.client_address
        /\ IsError(Replies[1], FILE_NOT_FOUND)
        /\ sess.end = "error"

\* A read request for a missing file has been handled to its end
C13_Witness == HandlerDone /\ ReadOfMissingFile /\ Len(Replies) = 1

\* C14: a datagram sent to a running session is never taken by the
\* Dispatcher: the Dispatcher never constructs a Handler for an Ack that the
\* peer of a read session sent while that session ran.
C14_AckNotTakenByDispatcher ==
    ~ /\ pc = "handle"
      /\ request.client_address = sess.address
      /\ request.packet \in sess.fromPeer
      /\ UnpackOpcode(request.packet).exc = None
      /\ UnpackOpcode(request.packet).val = ACK

\* The positions of the serving thread inside a handler
HandlerPcs == {"handle", "rrq", "wrq", "loop", "recv"}

\* What a server that has handled nothing before sends for a request: the
\* Error of Handler.handle or of handleRRQ, or what the first pass of the
\* loop of handleRRQ sends before the handler is left
FreshReplies(packet, address) ==
    LET r == UnpackRWRQ(packet)
    IN  IF r.exc # None
        THEN IF HandleErrorCode(r.exc) >= 0
             THEN SendError(address, PackERROR(HandleErrorCode(r.exc), ExMsg(r.exc)).val)
             ELSE <<>>
        ELSE IF r.val[1] # RRQ THEN <<>>
        ELSE LET f == StorageGet(r.val[2])
             IN  IF f.exc # None
                 THEN SendError(address, PackERROR(FILE_NOT_FOUND, ExMsg(f.exc)).val)
                 ELSE SendPhase(NewBlock(InitLocals(r.val[2], f.val)), address).out

C16_DataOfWriterAcked ==
    ( /\ HandlerDone
      /\ request.client_address \in hist.writers
      /\ UnpackDATA(request.packet).exc = None
      /\ UnpackDATA(request.packet).val[2] = 1 ) =>
        \E i \in 1..Len(Replies) :
            Replies[i] = [to |-> request.client_address, data |-> <<0, ACK, 0, 1>>]

---------------------------------------------------------------------------
(* The codec functions applied on their own *)

SampleBlocks == {0, 1, 255, 256, 65535}
SamplePayloads == {FileBytes(0), FileBytes(1), FileBytes(511), FileBytes(512)}

\* Every input of fewer than 2 bytes, over the bytes 0..MaxShortByte
ShortInputs == {<<>>} \cup {<<b>> : b \in 0..MaxShortByte}

\* A Data packet or an Ack packet to encode and decode again, or raw bytes to
\* decode
CodecInputs ==
    [kind : {"data"}, block : SampleBlocks, payload : SamplePayloads]
      \cup [kind : {"ack"}, block : SampleBlocks, payload : {<<>>}]
      \cup [kind : {"raw"}, block : {0}, payload : ShortInputs]

CodecInit ==
    /\ inbox = <<>>
    /\ outbox = <<>>
    /\ pc = "serve"
    /\ request = NoRequest
    /\ args = NoArgs
    /\ rrq = NoLocals
    /\ uncaught = None
    /\ sess = NoSession
    /\ arrived = 0
    /\ py311 \in BOOLEAN
    /\ hist = NoHistory
    /\ codec \in {[NoCodec EXCEPT !.kind = i.kind, !.block = i.block,
                                  !.payload = i.payload] : i \in CodecInputs}

\* packDATA then unpackDATA, or packACK then unpackACK: results are
\* <<the encoding, the decoding of the encoding>>
CodecRoundTrip ==
    /\ codec.kind \in {"data", "ack"}
    /\ ~codec.done
    /\ LET enc == IF codec.kind = "data"
                  THEN PackDATA(codec.payload, codec.block)
                  ELSE PackACK(codec.block)
           dec == IF enc.exc # None THEN Raise(enc.exc)
                  ELSE IF codec.kind = "data" THEN UnpackDATA(enc.val)
                  ELSE UnpackACK(enc.val, py311)
       IN  codec' = [codec EXCEPT !.done = TRUE, !.results = <<enc, dec>>]
    /\ UNCHANGED <<inbox, outbox, pc, request, args, rrq, uncaught, sess,
                   arrived, py311, hist>>

\* unpackOpcode, unpackRWRQ, unpackDATA and unpackACK on the same raw bytes
CodecDecode ==
    /\ codec.kind = "raw"
    /\ ~codec.done
    /\ codec' = [codec EXCEPT
                    !.done = TRUE,
                    !.results = <<UnpackOpcode(codec.payload),
                                  UnpackRWRQ(codec.payload),
                                  UnpackDATA(codec.payload),
                                  UnpackACK(codec.payload, py311)>>]
    /\ UNCHANGED <<inbox, outbox, pc, request, args, rrq, uncaught, sess,
                   arrived, py311, hist>>

CodecNext == CodecRoundTrip \/ CodecDecode

CodecSpec == CodecInit /\ [][CodecNext]_vars

\* C17: decoding the encoding of a Data packet returns its opcode, block
\* number and payload, and decoding the encoding of an Ack packet returns its
\* opcode and block number.
C17_RoundTrip ==
    (codec.done /\ codec.kind \in {"data", "ack"}) =>
        /\ codec.results[2].exc = None
        /\ codec.results[2].val =
              IF codec.kind = "data" THEN <<DATA, codec.block, codec.payload>>
              ELSE <<ACK, codec.block>>

\* C18: every decode operation (opcode, request, Data, Ack) rejects an input
\* shorter than 2 bytes: none of them returns a packet for it.
C18_ShortInputRejected ==
    (codec.done /\ codec.kind = "raw") =>
        \A i \in 1..4 : codec.results[i].exc # None

---------------------------------------------------------------------------
(* Request-time error codes *)

\* The error code the kind of decode failure of a first datagram calls for,
\* as a set: empty when the datagram is none of the kinds listed
RequestErrorCode(packet) ==
    LET o == UnpackOpcode(packet)
        r == UnpackRWRQ(packet)
    IN  IF o.exc = "UnknownOpcodeException" THEN {ILLEGAL_OPERATION}
        ELSE IF o.exc = None /\ o.val \in {DATA, ACK, ERROR}
        THEN {ILLEGAL_OPERATION}
        ELSE IF r.exc = "UnknownModeException" THEN {ACCESS_VIOLATION}
        ELSE IF r.exc = "EmptyPathException" THEN {FILE_NOT_FOUND}
        ELSE {}

\* The three kinds the code does answer: unknown opcode, unknown mode, empty
\* filename
C19_AnsweredKinds ==
    (/\ HandlerDone
     /\ UnpackRWRQ(request.packet).exc \in
           {"UnknownOpcodeException", "UnknownModeException",
            "EmptyPathException"}) =>
        /\ Len(Replies) = 1
        /\ \E code \in RequestErrorCode(request.packet) :
              IsError(Replies[1], code)

\* C19: an unknown mode is answered with Error code 2, an empty filename with
\* Error code 1, and an unknown opcode or an opcode that is not RRQ or WRQ
\* (Data, Ack, Error) with Error code 4.
C19_ErrorCodePerFailure ==
    HandlerDone =>
        \A code \in RequestErrorCode(request.packet) :
            /\ Replies # <<>>
            /\ Replies[1].to = request.client_address
            /\ IsError(Replies[1], code)

---------------------------------------------------------------------------
(* Progress of a read session *)

\* C20: a read session over a stored file whose peer answers each Data
\* block k with Ack(k) reaches Completed: it is never over in any other way.
\* (A session that is over stays as it ended, so one that ended otherwise
\* never reaches Completed.)
C20_SessionCompletes ==
    (Opened /\ Ended /\ AckedInTurn) => sess.end = "completed"

====
